---- MODULE Spec2Model ----
(***************************************************************************)
(* check-aws-cloudwatch-logs-insights: the query-poll state machine of     *)
(* searchLogs with the persisted logState, and the signal handling of the  *)
(* top-level run.  One process image runs two goroutines: the worker       *)
(* (go func() { resCh <- p.run(ctx) }) and main (the selects of run).      *)
(* Time is counted in ticks, TicksPerSec ticks to the second, so that      *)
(* time.Time.Unix() is a truncation and not the identity.                  *)
(***************************************************************************)
EXTENDS Integers, Naturals, Sequences, FiniteSets, TLC

\* ---------------------------------------------------------------- bounds
TicksPerSec == 2
MaxPolls == 3
MaxRuns == 2
\* the largest count the threshold evaluator is tried on
MaxCount == 3
\* the most rows a response holds when the classifier is tried on its own
MaxRows == 2
\* how often saveState is called when the state file is tried on its own
MaxSaves == 2

\* ------------------------------------------------------ program constants
\* startTime = lastState.QueryStartedAt - 2 * time.Minute
OverlapMinutes == 2
\* startTime = endTime - 3 * time.Minute when there is no usable state
FallbackMinutes == 3
\* Limit: aws.Int64(1)
QueryLimit == 1

Minute == 60 * TicksPerSec

\* The clock of the first invocation, and how far it advances between two
\* invocations of the plugin (ticks).
StartClocks == {20 * Minute + 1}
ClockSteps == {1, 5 * Minute + 1}

\* ------------------------------------------------------------ time.Time
\* t.Unix(): whole seconds, rounded down.
Unix(t) == t \div TicksPerSec
\* time.Unix(sec, 0)
TimeOfUnix(sec) == sec * TicksPerSec
\* var startTime time.Time: the zero Time, told apart from every instant the
\* model reaches (the zero Time is year 1, far below every value used here).
ZeroTime == [isZero |-> TRUE, t |-> 0]
Instant(t) == [isZero |-> FALSE, t |-> t]

\* ------------------------------------------------------------- logState
\* type logState struct { QueryStartedAt int64 }
logState(sec) == [QueryStartedAt |-> sec]

\* encoding/json writes an int64 as its decimal digits, with a minus sign
\* for a negative number, and reads it back from them.
DigitChars == <<"0", "1", "2", "3", "4", "5", "6", "7", "8", "9">>
RECURSIVE FormatNat(_)
FormatNat(n) ==
  IF n < 10 THEN <<DigitChars[n + 1]>>
  ELSE Append(FormatNat(n \div 10), DigitChars[(n % 10) + 1])
FormatInt(n) == IF n < 0 THEN <<"-">> \o FormatNat(-n) ELSE FormatNat(n)

IsDigits(text) ==
  /\ text # <<>>
  /\ \A i \in 1..Len(text) : \E d \in 1..10 : DigitChars[d] = text[i]
IsNumber(text) ==
  IF text # <<>> /\ Head(text) = "-" THEN IsDigits(Tail(text)) ELSE IsDigits(text)
DigitValue(c) == (CHOOSE d \in 1..10 : DigitChars[d] = c) - 1
RECURSIVE ParseNat(_)
ParseNat(text) ==
  IF text = <<>> THEN 0
  ELSE 10 * ParseNat(SubSeq(text, 1, Len(text) - 1)) + DigitValue(text[Len(text)])
ParseInt(text) == IF Head(text) = "-" THEN -ParseNat(Tail(text)) ELSE ParseNat(text)

\* The state file: absent, unreadable as JSON, or a JSON object; text is the
\* number written in the object {"QueryStartedAt":...}.
NoFile == [kind |-> "absent", text |-> <<>>]
CorruptFile == [kind |-> "corrupt", text |-> <<"x">>]
\* json.NewEncoder(&buf).Encode(s)
EncodeState(s) == [kind |-> "json", text |-> FormatInt(s.QueryStartedAt)]

\* loadState: os.Open fails for an absent file (IsNotExist); Decode fails on
\* a file that is not JSON; otherwise the decoded logState.
loadState(f) ==
  IF f.kind = "absent" THEN [err |-> "notexist", s |-> logState(0)]
  ELSE IF ~IsNumber(f.text) THEN [err |-> "decode", s |-> logState(0)]
  ELSE [err |-> "nil", s |-> logState(ParseInt(f.text))]

\* The timestamp a state file holds (0 when it cannot be loaded).
CursorOf(f) == loadState(f).s.QueryStartedAt

\* Mutant: a state file that exists is not written over.
saveState_keepsOld(f, s, ok) == IF ok /\ f.kind # "json" THEN EncodeState(s) ELSE f

\* saveState: atomic.WriteFile replaces the file on success and leaves it as
\* it was on failure (ok = FALSE: Encode, MkdirAll or WriteFile failed).
saveState(f, s, ok) == IF ok THEN EncodeState(s) ELSE f

\* ------------------------------------------------------ the query window
\* Mutant: the two minutes are added to the loaded timestamp.
startTimeOf_added(ld) ==
  IF ld.err = "nil" /\ ld.s.QueryStartedAt # 0
  THEN Instant(TimeOfUnix(ld.s.QueryStartedAt) + OverlapMinutes * Minute)
  ELSE ZeroTime

\* searchLogs lines 93-105: startTime from the loaded state, else the
\* fallback; endTime is the current timestamp.
startTimeOf(ld) ==
  IF ld.err = "nil" /\ ld.s.QueryStartedAt # 0
  THEN Instant(TimeOfUnix(ld.s.QueryStartedAt) - OverlapMinutes * Minute)
  ELSE ZeroTime

endTimeOf(currentTimestamp) == currentTimestamp

planStart(ld, currentTimestamp) ==
  LET st == startTimeOf(ld)
  IN  IF st.isZero THEN endTimeOf(currentTimestamp) - FallbackMinutes * Minute
      ELSE st.t

\* Mutant: the start of the fallback window is saved.
newState_fallbackStart(currentTimestamp) ==
  logState(Unix(currentTimestamp - FallbackMinutes * Minute))

\* Mutant: the timestamp is rounded up to the next second.
newState_roundUp(currentTimestamp) ==
  logState((currentTimestamp + TicksPerSec - 1) \div TicksPerSec)

\* state := &logState{QueryStartedAt: currentTimestamp.Unix()}
newState(currentTimestamp) == logState(Unix(currentTimestamp))

\* fullQuery: p.Filter, plus the stats command when ReturnMessage is set.
fullQuery(o) == IF o.ReturnMessage THEN <<"Filter", "| stats earliest(@message)">>
                ELSE <<"Filter">>

\* startQuery: the StartQueryInput that is sent.
StartQueryInput(o, startTime, endTime) ==
  [StartTime |-> Unix(startTime), EndTime |-> Unix(endTime),
   QueryString |-> fullQuery(o), Limit |-> QueryLimit]

NoInput == [StartTime |-> 0, EndTime |-> 0, QueryString |-> <<>>, Limit |-> 0]

\* ------------------------------------------------------ GetQueryResults
Statuses == {"Scheduled", "Running", "Complete", "Failed", "Cancelled"}
\* a status string the plugin does not know
OtherStatuses == {"Timeout"}

MessageField == "earliest(@message)"
Field(name, value) == [Field |-> name, Value |-> value]
\* Results of a response: rows of fields.
ResultSets ==
  { <<>>,
    << <<Field("@ptr", "p"), Field(MessageField, "m1")>>,
       <<Field(MessageField, "m2")>> >> }

\* RecordsMatched of the statistics; -1 stands for absent statistics.
NoStatistics == -1
RecordsMatchedValues == {NoStatistics, 2, 3}

\* A response with a nil Status (or a nil output) has Status "nil".
Outputs ==
  [Status : Statuses \cup OtherStatuses \cup {"nil"},
   RecordsMatched : RecordsMatchedValues,
   Results : ResultSets]

\* type ParsedQueryResults struct
ParsedQueryResults(fin, cnt, msg) ==
  [Finished |-> fin, MatchedCount |-> cnt, ReturnedMessage |-> msg]

\* The value of the first message field of a row, "" when it has none.
RECURSIVE rowMessage(_)
rowMessage(fields) ==
  IF fields = <<>> THEN [found |-> FALSE, v |-> ""]
  ELSE IF Head(fields).Field = MessageField THEN [found |-> TRUE, v |-> Head(fields).Value]
  ELSE rowMessage(Tail(fields))

\* for _, fields := range out.Results: every row that has a message field
\* overwrites res.ReturnedMessage.
RECURSIVE returnedMessage(_, _)
returnedMessage(rows, acc) ==
  IF rows = <<>> THEN acc
  ELSE LET m == rowMessage(Head(rows))
       IN  returnedMessage(Tail(rows), IF m.found THEN m.v ELSE acc)

\* Mutant: Running counts as finished.
parseResult_runningFinished(out) ==
  IF out.Status = "nil"
  THEN [nilres |-> TRUE, err |-> "unexpected response",
        res |-> ParsedQueryResults(FALSE, 0, "")]
  ELSE [nilres |-> FALSE, err |-> "nil",
        res |-> ParsedQueryResults(
                  out.Status \in {"Running", "Complete", "Failed", "Cancelled"},
                  IF out.RecordsMatched # NoStatistics THEN out.RecordsMatched ELSE 0,
                  returnedMessage(out.Results, ""))]

\* Mutant: a status that is not one of the five known ones is an error.
parseResult_strict(out) ==
  IF out.Status \notin Statuses
  THEN [nilres |-> TRUE, err |-> "unexpected response",
        res |-> ParsedQueryResults(FALSE, 0, "")]
  ELSE [nilres |-> FALSE, err |-> "nil",
        res |-> ParsedQueryResults(
                  out.Status \in {"Complete", "Failed", "Cancelled"},
                  IF out.RecordsMatched # NoStatistics THEN out.RecordsMatched ELSE 0,
                  returnedMessage(out.Results, ""))]

\* Mutant: the count is the number of rows.
parseResult_countsRows(out) ==
  IF out.Status = "nil"
  THEN [nilres |-> TRUE, err |-> "unexpected response",
        res |-> ParsedQueryResults(FALSE, 0, "")]
  ELSE [nilres |-> FALSE, err |-> "nil",
        res |-> ParsedQueryResults(
                  out.Status \in {"Complete", "Failed", "Cancelled"},
                  Len(out.Results),
                  returnedMessage(out.Results, ""))]

\* parseResult: (nil, err) for a nil output or Status; otherwise a result
\* whose Finished is set for Complete, Failed and Cancelled, and a nil error.
parseResult(out) ==
  IF out.Status = "nil"
  THEN [nilres |-> TRUE, err |-> "unexpected response",
        res |-> ParsedQueryResults(FALSE, 0, "")]
  ELSE [nilres |-> FALSE, err |-> "nil",
        res |-> ParsedQueryResults(
                  out.Status \in {"Complete", "Failed", "Cancelled"},
                  IF out.RecordsMatched # NoStatistics THEN out.RecordsMatched ELSE 0,
                  returnedMessage(out.Results, ""))]

\* --------------------------------------------------------- buildChecker
Checker(status, msg) == [status |-> status, msg |-> msg]
Unknown(msg) == Checker("UNKNOWN", << <<msg>> >>)

\* Mutant: the comparisons are not strict.
buildChecker_nonStrict(o, r) ==
  LET status == IF r.MatchedCount >= o.CriticalOver THEN "CRITICAL"
                ELSE IF r.MatchedCount >= o.WarningOver THEN "WARNING"
                ELSE "OK"
  IN  Checker(status, << <<r.MatchedCount, "messages">> >>)

\* Mutant: the critical comparison is turned around.
buildChecker_inverted(o, r) ==
  LET status == IF r.MatchedCount < o.CriticalOver THEN "CRITICAL"
                ELSE IF r.MatchedCount > o.WarningOver THEN "WARNING"
                ELSE "OK"
  IN  Checker(status, << <<r.MatchedCount, "messages">> >>)

\* Mutant: the returned message is appended whether asked for or not.
buildChecker_alwaysAppends(o, r) ==
  LET status == IF r.MatchedCount > o.CriticalOver THEN "CRITICAL"
                ELSE IF r.MatchedCount > o.WarningOver THEN "WARNING"
                ELSE "OK"
      line == <<r.MatchedCount, "messages">>
  IN  Checker(status,
              IF status # "OK" THEN <<line, <<r.ReturnedMessage>> >> ELSE <<line>>)

buildChecker(o, r) ==
  LET status == IF r.MatchedCount > o.CriticalOver THEN "CRITICAL"
                ELSE IF r.MatchedCount > o.WarningOver THEN "WARNING"
                ELSE "OK"
      line == IF r.MatchedCount > o.CriticalOver
                THEN <<r.MatchedCount, ">", o.CriticalOver, "messages">>
              ELSE IF r.MatchedCount > o.WarningOver
                THEN <<r.MatchedCount, ">", o.WarningOver, "messages">>
              ELSE <<r.MatchedCount, "messages">>
  IN  Checker(status,
              IF status # "OK" /\ o.ReturnMessage
              THEN <<line, <<r.ReturnedMessage>> >> ELSE <<line>>)

\* Mutant: the error of searchLogs is not looked at.
pluginRun_errorDropped(o, r, err) == buildChecker(o, r)

\* p.run: an error of searchLogs becomes UNKNOWN, a result goes to buildChecker.
pluginRun(o, r, err) == IF err # "nil" THEN Unknown(err) ELSE buildChecker(o, r)


\* ------------------------------------------------------------ the state
VARIABLES
  file,        \* the state file p.StateFile
  clock,       \* time.Now() of the running invocation
  runs,        \* how many invocations of the plugin have started
  opts,        \* logOpts: WarningOver, CriticalOver, ReturnMessage
  wpc,         \* where the worker goroutine (p.run / searchLogs) stands
  queryID,     \* the handle returned by StartQuery
  state,       \* searchLogs' local state: the logState to be saved
  input,       \* the StartQueryInput sent by startQuery
  res,         \* searchLogs' result (meaningful when werr = "nil")
  werr,        \* searchLogs' error, "nil" for none
  ctxDone,     \* the context of run has been cancelled
  resCh,       \* chan *checkers.Checker, capacity 1
  sigCh,       \* chan os.Signal, capacity 1: number of buffered signals
  mpc,         \* where main (run's selects) stands
  outcome,     \* the checker run returned
  calls,       \* history: the calls searchLogs made, in order
  fileAtStart, \* history: the state file when the invocation started
  lastOut,     \* history: the response that was classified as finished
  ctxAtFinish, \* history: ctxDone when that response was classified
  innerFirst,  \* history: what became ready first after the first signal
  exitPath,    \* history: the select case through which run returned
  prev,        \* history: what the invocation before this one left behind
  loaded,      \* what loadState returned, when it is called on its own
  records,     \* the argument of extractCount: [][]*ResultField
  count,       \* what extractCount returned
  ident,       \* state dir, AWS_* environment and argument vector
  StateFile,   \* p.StateFile: the path getStateFile returned
  tmpfile      \* the temporary file of atomic.WriteFile

vars == <<file, clock, runs, opts, wpc, queryID, state, input, res, werr,
          ctxDone, resCh, sigCh, mpc, outcome, calls, fileAtStart,
          lastOut, ctxAtFinish, innerFirst, exitPath, prev, loaded,
          records, count, ident, StateFile, tmpfile>>

QueryIds == {"query-1"}
NoResult == ParsedQueryResults(FALSE, 0, "")
NoOutput == [Status |-> "", RecordsMatched |-> NoStatistics, Results |-> <<>>]
NoChecker == Checker("none", <<>>)

OptsSet == [WarningOver : {1}, CriticalOver : {2}, ReturnMessage : BOOLEAN]

\* State files an invocation can find: none, one that is not JSON, a zero
\* state, and states saved by earlier invocations.
InitFiles(now) ==
  {NoFile, CorruptFile, EncodeState(logState(0)),
   EncodeState(logState(Unix(now) - 60))}

\* The fields of one process image right after run has started the worker.
Fresh ==
  /\ wpc = "start" /\ mpc = "outer"
  /\ queryID = "" /\ state = logState(0) /\ input = NoInput
  /\ res = NoResult /\ werr = "nil"
  /\ ctxDone = FALSE /\ resCh = <<>> /\ sigCh = 0
  /\ outcome = NoChecker
  /\ calls = <<>>
  /\ lastOut = NoOutput /\ ctxAtFinish = FALSE /\ innerFirst = "none"
  /\ exitPath = ""

\* loadState has not been called on its own.
NoLoad == [err |-> "none", s |-> logState(0)]

\* No invocation came before, or none is remembered.
NoPrev == [submitted |-> FALSE, EndTime |-> 0, save |-> "none",
           trouble |-> "none", exitPath |-> ""]

\* The parts of the program that a specification does not exercise: no
\* result set handed to extractCount, no state file path computed on its
\* own, no temporary file.
NoRecords == <<>>
NoCount == [n |-> 0, err |-> "none"]
NoIdent == [stateDir |-> "", AWS_PROFILE |-> <<>>, AWS_ACCESS_KEY_ID |-> <<>>,
            AWS_REGION |-> <<>>, args |-> <<>>]
NoPath == [dir |-> "", name |-> <<>>]
NoTemp == [exists |-> FALSE, text |-> <<>>]
AtRest ==
  /\ records = NoRecords /\ count = NoCount
  /\ ident = NoIdent /\ StateFile = NoPath
  /\ tmpfile = NoTemp
UNCH_rest == UNCHANGED <<records, count, ident, StateFile, tmpfile>>

Init ==
  /\ clock \in StartClocks
  /\ file \in InitFiles(clock)
  /\ fileAtStart = file
  /\ opts \in OptsSet
  /\ runs = 1
  /\ prev = NoPrev /\ loaded = NoLoad /\ AtRest
  /\ Fresh

\* main is running: run has not returned and the worker has not panicked (a
\* panic ends the whole process).  The worker goes on after run has returned,
\* until Exit.
Alive == mpc # "returned" /\ wpc # "panicked"

Call(name, arg) == <<name, arg>>
Count(name) == Cardinality({i \in 1..Len(calls) : calls[i][1] = name})
Polls == Count("GetQueryResults")

UNCH_main == UNCHANGED <<ctxDone, sigCh, mpc, outcome, innerFirst, exitPath>>
UNCH_env == UNCHANGED <<clock, runs, opts, fileAtStart, prev, loaded>> /\ UNCH_rest

\* ----------------------------------------------------------- searchLogs
\* Mutant: a load error is taken for an absent file.
loadError_ignored(ld) == "nil"

\* Lines 94-97: a load error other than IsNotExist ends searchLogs.
loadError(ld) ==
  IF ld.err \notin {"nil", "notexist"} THEN "failed to load plugin state" ELSE "nil"

\* Mutant: the error of StartQuery is dropped.
startQueryError_dropped(ok) == "nil"

\* Lines 110-113: an error of StartQuery ends searchLogs.
startQueryError(ok) == IF ok THEN "nil" ELSE "failed to start query"

\* Lines 93-113: load the state, plan the window, build the logState to be
\* saved, call StartQuery.  A load error other than IsNotExist and a
\* StartQuery error both return at once.
searchLogs_start ==
  /\ wpc = "start"
  /\ LET ld == loadState(file)
         startTime == planStart(ld, clock)
         endTime == endTimeOf(clock)
     IN  IF loadError(ld) # "nil"
         THEN /\ werr' = loadError(ld)
              /\ wpc' = "send"
              /\ calls' = Append(calls, Call("return", "err"))
              /\ UNCHANGED <<queryID, state, input>>
         ELSE /\ state' = newState(clock)
              /\ input' = StartQueryInput(opts, startTime, endTime)
              /\ \E ok \in BOOLEAN :
                   /\ werr' = startQueryError(ok)
                   /\ IF ok THEN queryID' \in QueryIds ELSE UNCHANGED queryID
                   /\ IF startQueryError(ok) = "nil"
                      THEN /\ wpc' = "select"
                           /\ calls' = Append(calls, Call("StartQuery", IF ok THEN "ok" ELSE "err"))
                      ELSE /\ wpc' = "send"
                           /\ calls' = calls \o <<Call("StartQuery", IF ok THEN "ok" ELSE "err"),
                                                   Call("return", "err")>>
  /\ UNCHANGED <<file, res, resCh, lastOut, ctxAtFinish>>
  /\ UNCH_main /\ UNCH_env

\* select, case <-ctx.Done(): err := ctx.Err()
searchLogs_ctxDone ==
  /\ wpc = "select"
  /\ ctxDone
  /\ wpc' = "cancelled"
  /\ werr' = "context canceled"
  /\ UNCHANGED <<file, queryID, state, input, res, resCh, calls, lastOut, ctxAtFinish>>
  /\ UNCH_main /\ UNCH_env

\* select, case <-ticker.C: the ticker fires every second.
searchLogs_tick ==
  /\ wpc = "select"
  /\ Polls < MaxPolls
  /\ wpc' = "poll"
  /\ calls' = Append(calls, Call("GetQueryResults", queryID))
  /\ UNCHANGED <<file, queryID, state, input, res, werr, resCh, lastOut, ctxAtFinish>>
  /\ UNCH_main /\ UNCH_env

\* Mutant: after an API error of GetQueryResults the query is started again.
searchLogs_pollError_resubmits ==
  /\ wpc = "poll"
  /\ wpc' = "select"
  /\ calls' = calls \o <<Call("response", "apierr"), Call("StartQuery", "ok")>>
  /\ UNCHANGED <<file, queryID, state, input, res, werr, resCh, lastOut, ctxAtFinish>>
  /\ UNCH_main /\ UNCH_env

\* Mutant: after an API error of GetQueryResults the state is saved.
searchLogs_pollError_saves ==
  /\ wpc = "poll"
  /\ wpc' = "select"
  /\ calls' = Append(calls, Call("response", "apierr"))
  /\ file' = saveState(file, state, TRUE)
  /\ UNCHANGED <<queryID, state, input, res, werr, resCh, lastOut, ctxAtFinish>>
  /\ UNCH_main /\ UNCH_env

\* Mutant: an API error of GetQueryResults is returned.
searchLogs_pollError_returned ==
  /\ wpc = "poll"
  /\ wpc' = "send"
  /\ werr' = "failed to get query results"
  /\ calls' = calls \o <<Call("response", "apierr"), Call("return", "err")>>
  /\ UNCHANGED <<file, queryID, state, input, res, resCh, lastOut, ctxAtFinish>>
  /\ UNCH_main /\ UNCH_env

\* Lines 133-137: GetQueryResults answers with an API error: log, continue.
searchLogs_pollError ==
  /\ wpc = "poll"
  /\ wpc' = "select"
  /\ calls' = Append(calls, Call("response", "apierr"))
  /\ UNCHANGED <<file, queryID, state, input, res, werr, resCh, lastOut, ctxAtFinish>>
  /\ UNCH_main /\ UNCH_env

\* Where the loop goes after parseResult: res.Finished is read before err is
\* looked at, so a nil res (nil output or nil Status) is a nil dereference.
afterParse(pr) ==
  IF pr.nilres THEN "panicked"
  ELSE IF pr.res.Finished THEN "finished"
  ELSE "select"

responseClass(pr) ==
  IF pr.nilres THEN "malformed"
  ELSE IF pr.res.Finished THEN "terminal"
  ELSE "nonterminal"

\* Lines 133-152: GetQueryResults answers with an output; parseResult.
searchLogs_pollOutput ==
  /\ wpc = "poll"
  /\ \E out \in Outputs :
       LET pr == parseResult(out)
       IN  /\ wpc' = afterParse(pr)
           /\ calls' = Append(calls, Call("response", responseClass(pr)))
           /\ IF afterParse(pr) = "finished"
              THEN /\ res' = pr.res
                   /\ werr' = pr.err
                   /\ lastOut' = out
                   /\ ctxAtFinish' = ctxDone
              ELSE UNCHANGED <<res, werr, lastOut, ctxAtFinish>>
  /\ UNCHANGED <<file, queryID, state, input, resCh>>
  /\ UNCH_main /\ UNCH_env

\* Mutant: a save error after a finished query is only logged.
finishError_saveLogged(perr, saveOk) ==
  IF perr # "nil" THEN "failed to get query results" ELSE "nil"

\* Lines 139-151: the query has finished: save the state and return.  With
\* an error of parseResult the save error is only logged; without, a save
\* error is returned instead of the result.
finishError(perr, saveOk) ==
  IF perr # "nil" THEN "failed to get query results"
  ELSE IF ~saveOk THEN "failed to save state file"
  ELSE "nil"

\* Mutant: the state is saved only when the query completed.
searchLogs_finished_onlyComplete ==
  /\ wpc = "finished"
  /\ \E ok \in BOOLEAN :
       LET saved == ok /\ lastOut.Status = "Complete"
       IN  /\ file' = saveState(file, state, saved)
           /\ werr' = finishError(werr, ok)
           /\ calls' = calls \o <<Call("saveState", IF ok THEN "ok" ELSE "err"),
                                  Call("return", IF finishError(werr, ok) = "nil" THEN "res" ELSE "err")>>
  /\ wpc' = "send"
  /\ UNCHANGED <<queryID, state, input, res, resCh, lastOut, ctxAtFinish>>
  /\ UNCH_main /\ UNCH_env

\* Mutant: a finished query is returned without saving the state.
searchLogs_finished_unsaved ==
  /\ wpc = "finished"
  /\ calls' = Append(calls, Call("return", IF werr = "nil" THEN "res" ELSE "err"))
  /\ wpc' = "send"
  /\ UNCHANGED <<file, queryID, state, input, res, werr, resCh, lastOut, ctxAtFinish>>
  /\ UNCH_main /\ UNCH_env

searchLogs_finished ==
  /\ wpc = "finished"
  /\ \E ok \in BOOLEAN :
       /\ file' = saveState(file, state, ok)
       /\ werr' = finishError(werr, ok)
       /\ calls' = calls \o <<Call("saveState", IF ok THEN "ok" ELSE "err"),
                              Call("return", IF finishError(werr, ok) = "nil" THEN "res" ELSE "err")>>
  /\ wpc' = "send"
  /\ UNCHANGED <<queryID, state, input, res, resCh, lastOut, ctxAtFinish>>
  /\ UNCH_main /\ UNCH_env

\* Mutant: the cancellation branch goes to StopQuery without saving.
searchLogs_cancelSave_skipped ==
  /\ wpc = "cancelled"
  /\ wpc' = "stop"
  /\ UNCHANGED <<file, queryID, state, input, res, werr, resCh, calls, lastOut, ctxAtFinish>>
  /\ UNCH_main /\ UNCH_env

\* Lines 122-124: cancelled: save the state, a save error is only logged.
searchLogs_cancelSave ==
  /\ wpc = "cancelled"
  /\ \E ok \in BOOLEAN :
       /\ file' = saveState(file, state, ok)
       /\ calls' = Append(calls, Call("saveState", IF ok THEN "ok" ELSE "err"))
  /\ wpc' = "stop"
  /\ UNCHANGED <<queryID, state, input, res, werr, resCh, lastOut, ctxAtFinish>>
  /\ UNCH_main /\ UNCH_env

\* Mutant: StopQuery is called twice.
searchLogs_cancelStop_twice ==
  /\ wpc = "stop"
  /\ \E ok \in BOOLEAN :
       calls' = calls \o <<Call("StopQuery", queryID),
                           Call("StopQuery", queryID),
                           Call("stopped", IF ok THEN "ok" ELSE "err"),
                           Call("return", "err")>>
  /\ wpc' = "send"
  /\ UNCHANGED <<file, queryID, state, input, res, werr, resCh, lastOut, ctxAtFinish>>
  /\ UNCH_main /\ UNCH_env

\* Mutant: an error of StopQuery is returned in place of the context's.
searchLogs_cancelStop_escalated ==
  /\ wpc = "stop"
  /\ \E ok \in BOOLEAN :
       /\ calls' = calls \o <<Call("StopQuery", queryID),
                              Call("stopped", IF ok THEN "ok" ELSE "err"),
                              Call("return", "err")>>
       /\ werr' = IF ok THEN werr ELSE "failed to stop query"
  /\ wpc' = "send"
  /\ UNCHANGED <<file, queryID, state, input, res, resCh, lastOut, ctxAtFinish>>
  /\ UNCH_main /\ UNCH_env

\* Mutant: the cancellation branch returns without StopQuery.
searchLogs_cancelStop_skipped ==
  /\ wpc = "stop"
  /\ calls' = Append(calls, Call("return", "err"))
  /\ wpc' = "send"
  /\ UNCHANGED <<file, queryID, state, input, res, werr, resCh, lastOut, ctxAtFinish>>
  /\ UNCH_main /\ UNCH_env

\* Lines 125-130: StopQuery for the running query, its error only logged;
\* return the context's error.
searchLogs_cancelStop ==
  /\ wpc = "stop"
  /\ \E ok \in BOOLEAN :
       calls' = calls \o <<Call("StopQuery", queryID),
                           Call("stopped", IF ok THEN "ok" ELSE "err"),
                           Call("return", "err")>>
  /\ wpc' = "send"
  /\ UNCHANGED <<file, queryID, state, input, res, werr, resCh, lastOut, ctxAtFinish>>
  /\ UNCH_main /\ UNCH_env

\* Mutant: resCh has no buffer: the send needs run to be receiving.
worker_send_unbuffered ==
  /\ wpc = "send"
  /\ mpc \in {"outer", "inner"}
  /\ Len(resCh) < 1
  /\ resCh' = Append(resCh, pluginRun(opts, res, werr))
  /\ wpc' = "done"
  /\ innerFirst' = IF mpc = "inner" /\ innerFirst = "none" THEN "result" ELSE innerFirst
  /\ UNCHANGED <<file, queryID, state, input, res, werr, calls, lastOut, ctxAtFinish>>
  /\ UNCHANGED <<ctxDone, sigCh, mpc, outcome, exitPath>>
  /\ UNCH_env

\* go func() { resCh <- p.run(ctx) }(): the checker of p.run is sent; the
\* channel has room for the one value ever sent.
worker_send ==
  /\ wpc = "send"
  /\ Len(resCh) < 1
  /\ resCh' = Append(resCh, pluginRun(opts, res, werr))
  /\ wpc' = "done"
  /\ innerFirst' = IF mpc = "inner" /\ innerFirst = "none" THEN "result" ELSE innerFirst
  /\ UNCHANGED <<file, queryID, state, input, res, werr, calls, lastOut, ctxAtFinish>>
  /\ UNCHANGED <<ctxDone, sigCh, mpc, outcome, exitPath>>
  /\ UNCH_env

UNCH_worker == UNCHANGED <<file, wpc, queryID, state, input, res, werr, calls, lastOut, ctxAtFinish>>

\* ------------------------------------------------------------------ run
\* A SIGTERM or interrupt reaches the process: signal.Notify sends without
\* blocking, a signal that finds sigCh full is dropped.
Signal ==
  /\ Alive
  /\ sigCh' = 1
  /\ innerFirst' = IF mpc = "inner" /\ innerFirst = "none" THEN "signal" ELSE innerFirst
  /\ UNCHANGED <<ctxDone, resCh, mpc, outcome, exitPath>>
  /\ UNCH_worker /\ UNCH_env

\* outer select, case res := <-resCh: cancel(); return res
run_result ==
  /\ mpc = "outer" /\ Alive
  /\ resCh # <<>>
  /\ outcome' = Head(resCh)
  /\ resCh' = Tail(resCh)
  /\ ctxDone' = TRUE
  /\ mpc' = "returned"
  /\ exitPath' = "result"
  /\ UNCHANGED <<sigCh, innerFirst>>
  /\ UNCH_worker /\ UNCH_env

\* outer select, case <-sigCh: cancel(), then the inner select
run_signal ==
  /\ mpc = "outer" /\ Alive
  /\ sigCh > 0
  /\ sigCh' = sigCh - 1
  /\ ctxDone' = TRUE
  /\ mpc' = "inner"
  /\ innerFirst' = IF resCh # <<>> THEN "result" ELSE "none"
  /\ UNCHANGED <<resCh, outcome, exitPath>>
  /\ UNCH_worker /\ UNCH_env

\* Mutant: the inner select reports the termination for a result as well.
run_signal_result_dropped ==
  /\ mpc = "inner" /\ Alive
  /\ resCh # <<>>
  /\ outcome' = Unknown("terminated by signal")
  /\ resCh' = Tail(resCh)
  /\ mpc' = "returned"
  /\ exitPath' = "forced"
  /\ UNCHANGED <<ctxDone, sigCh, innerFirst>>
  /\ UNCH_worker /\ UNCH_env

\* inner select, case res := <-resCh: return res
run_signal_result ==
  /\ mpc = "inner" /\ Alive
  /\ resCh # <<>>
  /\ outcome' = Head(resCh)
  /\ resCh' = Tail(resCh)
  /\ mpc' = "returned"
  /\ exitPath' = "signal-result"
  /\ UNCHANGED <<ctxDone, sigCh, innerFirst>>
  /\ UNCH_worker /\ UNCH_env

\* inner select, case <-sigCh: force shutdown
run_signal_signal ==
  /\ mpc = "inner" /\ Alive
  /\ sigCh > 0
  /\ sigCh' = sigCh - 1
  /\ outcome' = Unknown("terminated by signal")
  /\ mpc' = "returned"
  /\ exitPath' = "forced"
  /\ UNCHANGED <<ctxDone, resCh, innerFirst>>
  /\ UNCH_worker /\ UNCH_env

\* Do: ckr.Exit() ends the process once run has returned (a panic of the
\* worker ends it too), whatever the worker was doing; the agent starts the
\* plugin again later, with the state file the process left.
ExitWith(p) ==
  /\ ~Alive
  /\ runs < MaxRuns
  /\ runs' = runs + 1
  /\ \E d \in ClockSteps : clock' = clock + d
  /\ fileAtStart' = file
  /\ wpc' = "start" /\ mpc' = "outer"
  /\ queryID' = "" /\ state' = logState(0) /\ input' = NoInput
  /\ res' = NoResult /\ werr' = "nil"
  /\ ctxDone' = FALSE /\ resCh' = <<>> /\ sigCh' = 0
  /\ outcome' = NoChecker
  /\ calls' = <<>>
  /\ lastOut' = NoOutput /\ ctxAtFinish' = FALSE /\ innerFirst' = "none"
  /\ exitPath' = ""
  /\ prev' = p
  /\ UNCHANGED <<file, opts, loaded>>
  /\ UNCH_rest

Exit == ExitWith(prev)

Next ==
  \/ searchLogs_start
  \/ searchLogs_ctxDone
  \/ searchLogs_tick
  \/ searchLogs_pollError
  \/ searchLogs_pollOutput
  \/ searchLogs_finished
  \/ searchLogs_cancelSave
  \/ searchLogs_cancelStop
  \/ worker_send
  \/ Signal
  \/ run_result
  \/ run_signal
  \/ run_signal_result
  \/ run_signal_signal
  \/ Exit

Spec == Init /\ [][Next]_vars


\* ------------------------------------------------------------- history
Has(name) == Count(name) > 0
\* The place of the first call of that name.
Pos(name) == CHOOSE i \in 1..Len(calls) :
               calls[i][1] = name /\ \A j \in 1..(i-1) : calls[j][1] # name
StartOK == \E i \in 1..Len(calls) : calls[i] = Call("StartQuery", "ok")
StartFailed == \E i \in 1..Len(calls) : calls[i] = Call("StartQuery", "err")
\* searchLogs has returned.
Returned == Has("return")
SavedOK == \E i \in 1..Len(calls) : calls[i] = Call("saveState", "ok")
SaveFailed == \E i \in 1..Len(calls) : calls[i] = Call("saveState", "err")
\* searchLogs took the ctx.Done branch of its select.
TookCancel == wpc \in {"cancelled", "stop"} \/ Has("StopQuery")
\* The checker p.run hands to resCh, once searchLogs has returned.
WorkerChecker == pluginRun(opts, res, werr)
Threshold == {"OK", "WARNING", "CRITICAL"}
Forced == Unknown("terminated by signal")

\* ------------------------------------------------------------------ C1
\* C1: in an invocation whose StartQuery succeeded, saveState is never
\* called twice, and once searchLogs has returned (result, remote
\* Failed/Cancelled, context cancelled) it has been called exactly once.
C1_SaveStateExactlyOnce ==
  /\ Count("saveState") <= 1
  /\ (StartOK /\ Returned => Count("saveState") = 1)

\* searchLogs returned through the cancellation branch, having saved once.
C1_Witness ==
  /\ StartOK /\ Returned /\ Has("StopQuery")
  /\ Count("saveState") = 1

\* ------------------------------------------------------------------ C2
\* C2: the logState to be saved is fixed when the query is submitted and
\* equals the EndTime of the StartQueryInput; whenever this invocation has
\* written the state file, whatever the outcome, the file holds that EndTime.
C2_SavedCursorIsEndTime ==
  /\ (Has("StartQuery") => state = logState(input.EndTime))
  /\ (SavedOK => file = EncodeState(logState(input.EndTime)))

\* The file was written after the backend reported Failed, over an older
\* state, for a clock that is not on a whole second.
C2_Witness ==
  /\ SavedOK /\ lastOut.Status = "Failed"
  /\ clock % TicksPerSec # 0
  /\ fileAtStart.kind = "json" /\ fileAtStart # file
  /\ CursorOf(file) = input.EndTime

\* ------------------------------------------------------------------ C3
\* C3: when StartQuery fails, searchLogs returns the start error, which is
\* reported as UNKNOWN; GetQueryResults, StopQuery and saveState are never
\* called and the state file is as it was when the invocation started.
C3_StartQueryFailure ==
  StartFailed =>
    /\ Returned /\ werr = "failed to start query"
    /\ WorkerChecker.status = "UNKNOWN"
    /\ (resCh # <<>> => Head(resCh).status = "UNKNOWN")
    /\ (mpc = "returned" => outcome.status = "UNKNOWN")
    /\ ~Has("GetQueryResults") /\ ~Has("StopQuery") /\ ~Has("saveState")
    /\ file = fileAtStart

\* run has returned the UNKNOWN of a failed StartQuery, an earlier state
\* still in the file.
C3_Witness ==
  /\ StartFailed /\ mpc = "returned" /\ exitPath = "result"
  /\ outcome = Unknown("failed to start query")
  /\ file.kind = "json" /\ CursorOf(file) # 0


\* ------------------------------------------------------------------ C4
\* C4: when the response classified as finished has Status Failed or
\* Cancelled, searchLogs returns an error, so the checker is UNKNOWN and
\* never OK, WARNING or CRITICAL; a state file written by this invocation
\* holds the EndTime of the window.
C4_RemoteFailureIsError ==
  (Returned /\ lastOut.Status \in {"Failed", "Cancelled"}) =>
    /\ werr # "nil"
    /\ WorkerChecker.status = "UNKNOWN"
    /\ (mpc = "returned" => outcome.status = "UNKNOWN")
    /\ (SavedOK => file = EncodeState(logState(input.EndTime)))

\* ------------------------------------------------------------------ C5
\* C5: on the cancellation branch searchLogs first calls saveState, then
\* StopQuery once with the handle of this invocation's StartQuery, then
\* returns the context's error; when that write went through, the state
\* file holds the EndTime of the window that was in flight.
C5_CancellationOrder ==
  /\ (wpc = "cancelled" => ~Has("saveState") /\ ~Has("StopQuery") /\ ~Returned)
  /\ (wpc = "stop" => Count("saveState") = 1 /\ ~Has("StopQuery") /\ ~Returned)
  /\ (Has("StopQuery") => werr = "context canceled" /\ Returned)
  /\ (werr = "context canceled" /\ Returned =>
        /\ Count("saveState") = 1 /\ Count("StopQuery") = 1
        /\ Pos("saveState") < Pos("StopQuery")
        /\ Pos("StopQuery") < Pos("return")
        /\ calls[Pos("StopQuery")][2] = queryID /\ queryID \in QueryIds
        /\ WorkerChecker = Unknown("context canceled")
        /\ (SavedOK => file = EncodeState(logState(input.EndTime))))

\* searchLogs returned through the cancellation branch and the file no
\* longer holds the state the invocation found.
C5_Witness ==
  /\ werr = "context canceled" /\ Returned /\ SavedOK
  /\ fileAtStart.kind = "json" /\ CursorOf(fileAtStart) # 0
  /\ file # fileAtStart
  /\ CursorOf(file) = input.EndTime

\* ------------------------------------------------------------------ C6
Responses(class) ==
  Cardinality({i \in 1..Len(calls) : calls[i] = Call("response", class)})

\* C6: an API error of GetQueryResults does not end the poll loop: it is
\* followed by the next poll (or by the cancellation branch), never by a
\* return, and writes nothing; however many API errors came first, a
\* Complete response whose state was saved makes searchLogs return the
\* parsed result of that response with a nil error.
C6_ApiErrorIsRetried ==
  /\ \A i \in 1..Len(calls) :
       calls[i] = Call("response", "apierr") =>
         IF i = Len(calls)
         THEN wpc \in {"select", "cancelled"}
         ELSE calls[i+1][1] \in {"GetQueryResults", "saveState"}
  /\ (Len(calls) > 0 /\ calls[Len(calls)] = Call("response", "apierr") =>
        ~Returned /\ ~Has("saveState") /\ file = fileAtStart)
  /\ (Returned /\ lastOut.Status = "Complete" /\ SavedOK =>
        /\ werr = "nil"
        /\ res = parseResult(lastOut).res
        /\ WorkerChecker = buildChecker(opts, parseResult(lastOut).res))

\* Two API errors, then Complete: run returned the checker of the result.
C6_Witness ==
  /\ Responses("apierr") = 2 /\ Polls = 3
  /\ Returned /\ lastOut.Status = "Complete" /\ werr = "nil"
  /\ mpc = "returned" /\ outcome = buildChecker(opts, parseResult(lastOut).res)
  /\ outcome.status = "CRITICAL"

\* ------------------------------------------------------------------ C7
\* C7: a response without Status does not end or crash the poll loop:
\* searchLogs is back in its select (or on the branch it took from there),
\* nothing has been returned and nothing written.
C7_MalformedIsRetried ==
  Responses("malformed") > 0 =>
    /\ wpc # "panicked"
    /\ (calls[Len(calls)] = Call("response", "malformed") =>
          wpc \in {"select", "cancelled"} /\ ~Returned /\ ~Has("saveState"))


\* ------------------------------------------------------------------ C8
\* The context was cancelled before the poll loop classified a response as
\* finished (or it never classified one).
CancelledFirst == ctxDone /\ (lastOut = NoOutput \/ ctxAtFinish)

\* C8 as stated: which of the two happened first decides: with the context
\* cancelled before a finished response was classified, run never returns
\* OK, WARNING or CRITICAL; with a finished response classified first (and
\* saved), run returns the checker of that response, a forced shutdown after
\* a second signal apart.
C8_FirstEventDecides ==
  mpc = "returned" =>
    /\ (CancelledFirst => outcome.status \notin Threshold)
    /\ (lastOut # NoOutput /\ ~ctxAtFinish /\ SavedOK /\ exitPath # "forced" =>
          outcome = buildChecker(opts, parseResult(lastOut).res))

\* C8 amended: the case the poll loop's select takes decides, not the order
\* of the events.  Having taken the ctx.Done case, the loop has classified
\* no finished response and the worker's checker is the UNKNOWN of the
\* context's error; a finished response that was classified and saved,
\* before or after the context was cancelled, makes the worker's checker the
\* threshold result of that response.  run returns the worker's checker,
\* or the UNKNOWN of a forced shutdown.
C8_SelectDecides ==
  /\ (TookCancel => lastOut = NoOutput /\ werr = "context canceled")
  /\ (Returned /\ TookCancel => WorkerChecker = Unknown("context canceled"))
  /\ (Returned /\ lastOut # NoOutput /\ SavedOK =>
        /\ WorkerChecker = buildChecker(opts, parseResult(lastOut).res)
        /\ WorkerChecker.status \in Threshold)
  /\ (mpc = "returned" =>
        IF exitPath = "forced" THEN outcome = Forced ELSE outcome = WorkerChecker)

\* The context was cancelled while a poll was in flight; the poll saw a
\* finished query and run returned its threshold result.
C8_Witness ==
  /\ mpc = "returned" /\ exitPath = "signal-result"
  /\ ctxAtFinish /\ lastOut.Status = "Complete"
  /\ outcome.status \in Threshold

\* ------------------------------------------------------------------ C9
\* C9 as stated: after the first signal has cancelled the context, what
\* arrives first decides: a second signal arriving before the worker's
\* checker makes run return the UNKNOWN of the forced shutdown; the worker's
\* checker arriving before a second signal is what run returns.
C9_ArrivalOrderDecides ==
  (mpc = "returned" /\ exitPath \in {"signal-result", "forced"}) =>
    /\ (innerFirst = "signal" => exitPath = "forced" /\ outcome = Forced)
    /\ (innerFirst = "result" => exitPath = "signal-result" /\ outcome = WorkerChecker)

\* C9 amended: run leaves its inner select as soon as one channel is ready:
\* with only a second signal ready it returns the UNKNOWN of the forced
\* shutdown, whatever the worker is doing; with only the worker's checker
\* ready it returns that checker; with both ready it returns either.
C9_InnerSelect ==
  [][ (mpc = "inner" /\ mpc' = "returned") =>
        /\ (sigCh > 0 \/ resCh # <<>>)
        /\ (resCh = <<>> => outcome' = Forced /\ exitPath' = "forced")
        /\ (sigCh = 0 => outcome' = Head(resCh) /\ exitPath' = "signal-result")
        /\ (exitPath' = "forced" => outcome' = Forced /\ sigCh > 0 /\ wpc' = wpc)
        /\ (exitPath' = "signal-result" => resCh # <<>> /\ outcome' = Head(resCh)) ]_vars

\* run returned the forced UNKNOWN while the worker, on the cancellation
\* branch, had saved the state and not yet called StopQuery.
C9_Witness ==
  /\ mpc = "returned" /\ exitPath = "forced" /\ outcome = Forced
  /\ innerFirst = "signal" /\ wpc = "stop" /\ resCh = <<>>

\* ----------------------------------------------------------------- C10
\* C10 as stated: whenever run has returned in an invocation that submitted
\* a query, saveState has been called and has returned.
C10_SaveBeforeReturn ==
  (mpc = "returned" /\ StartOK) => Count("saveState") = 1

\* C10 amended: whenever run has returned the worker's checker (received
\* directly, or after a first signal) in an invocation that submitted a
\* query, saveState has been called and has returned; the forced shutdown
\* after a second signal is the exit that does not wait for it.
C10_SaveBeforeResultReturn ==
  (mpc = "returned" /\ StartOK /\ exitPath # "forced") =>
    /\ Count("saveState") = 1
    /\ Returned /\ wpc = "done"
    /\ Pos("saveState") < Pos("return")

\* A first signal, the worker's cancellation branch, then the result.
C10_Witness ==
  /\ mpc = "returned" /\ exitPath = "signal-result" /\ StartOK
  /\ Has("StopQuery") /\ Count("saveState") = 1


\* ------------------------------------------- one invocation, any cursor
\* What the tests of searchLogs pin down: the end of the window lags five
\* minutes behind now, a cursor 42 minutes old is used, one 365 minutes old
\* is too old.
LagMinutes == 5
RecentMinutes == 42
TooOldMinutes == 365

\* The state files an invocation can find at time now: none, one that is not
\* JSON, a zero state, and the state an earlier invocation saved 42 or 365
\* minutes ago, in this very second, or (the wall clock having been set back
\* since) one or two minutes in the future.
PriorCursors(now) ==
  {NoFile, CorruptFile, EncodeState(logState(0)),
   EncodeState(logState(Unix(now) - RecentMinutes * 60)),
   EncodeState(logState(Unix(now) - TooOldMinutes * 60)),
   EncodeState(logState(Unix(now))),
   EncodeState(logState(Unix(now) + 60)),
   EncodeState(logState(Unix(now) + OverlapMinutes * 60))}

WindowClocks == {400 * Minute, 400 * Minute + 1}

InitWindow ==
  /\ clock \in WindowClocks
  /\ file \in PriorCursors(clock)
  /\ fileAtStart = file
  /\ opts \in OptsSet
  /\ runs = 1
  /\ prev = NoPrev /\ loaded = NoLoad /\ AtRest
  /\ Fresh

\* One invocation that no signal interrupts, from the load of the state to
\* the checker run returns.
NextWindow ==
  \/ searchLogs_start
  \/ searchLogs_tick
  \/ searchLogs_pollError
  \/ searchLogs_pollOutput
  \/ searchLogs_finished
  \/ worker_send
  \/ run_result

SpecWindow == InitWindow /\ [][NextWindow]_vars

\* The invocation found a decoded, non-zero cursor.
HasCursor == fileAtStart.kind = "json" /\ CursorOf(fileAtStart) # 0
Cursor == CursorOf(fileAtStart)
LoadFailed == werr = "failed to load plugin state"

\* C11: the end of the submitted window is now minus the ingestion lag, and
\* never now itself.
C11_EndIsNowMinusLag ==
  Has("StartQuery") =>
    /\ input.EndTime = Unix(clock - LagMinutes * Minute)
    /\ input.EndTime # Unix(clock)

\* C12: with a prior cursor T that is not stale, the submitted window starts
\* at T exactly.
C12_StartIsCursor ==
  (/\ Has("StartQuery")
   /\ HasCursor
   /\ Cursor <= Unix(clock)
   /\ Cursor >= Unix(clock) - RecentMinutes * 60)
  => input.StartTime = Cursor

\* C13: a prior cursor that is too old is not used: the invocation goes on
\* and the submitted window starts the fallback duration before its end.
C13_StaleFallsBack ==
  (/\ wpc # "start"
   /\ HasCursor
   /\ Cursor <= Unix(clock) - TooOldMinutes * 60)
  => /\ Has("StartQuery")
     /\ input.StartTime = input.EndTime - FallbackMinutes * 60

\* C14: without a state file the load is no error, the submitted window is
\* the fallback window ending at now minus the lag, and after a terminal
\* result the state file holds that window's end.
C14_ColdStart ==
  (fileAtStart = NoFile /\ wpc # "start") =>
    /\ ~LoadFailed
    /\ Has("StartQuery")
    /\ input.EndTime = Unix(clock - LagMinutes * Minute)
    /\ input.StartTime = input.EndTime - FallbackMinutes * 60
    /\ SavedOK => file = EncodeState(logState(input.EndTime))

\* C15 as stated: a state file that cannot be decoded is treated like an
\* absent one: the fallback window is submitted and no error is returned.
C15_CorruptIsAbsent ==
  (fileAtStart = CorruptFile /\ wpc # "start") =>
    /\ ~LoadFailed
    /\ Has("StartQuery")
    /\ input.StartTime = input.EndTime - FallbackMinutes * 60

\* C15: a state file that cannot be decoded ends searchLogs with "failed to
\* load plugin state" before any query is submitted and leaves the file as
\* it was; an absent file and a zero state are no error and the fallback
\* window is submitted.
C15_CorruptIsAnError ==
  /\ (fileAtStart = CorruptFile /\ wpc # "start") =>
       /\ LoadFailed
       /\ ~Has("StartQuery")
       /\ Returned
       /\ file = CorruptFile
  /\ (fileAtStart \in {NoFile, EncodeState(logState(0))} /\ wpc # "start") =>
       /\ ~LoadFailed
       /\ Has("StartQuery")
       /\ input.StartTime = input.EndTime - FallbackMinutes * 60

C15_Witness ==
  /\ fileAtStart = CorruptFile
  /\ mpc = "returned"
  /\ outcome = Unknown("failed to load plugin state")

\* C16: whatever the prior cursor, the submitted window has start < end.
C16_StartBeforeEnd ==
  Has("StartQuery") => input.StartTime < input.EndTime


\* ------------------------------------------------ the threshold evaluator
\* buildChecker on its own: counts and thresholds drawn from small ranges
\* (negative ones and warning >= critical included), with and without
\* ReturnMessage.
EvalCounts == (-1)..MaxCount
EvalThresholds == (-1)..(MaxCount - 1)
EvalOpts == [WarningOver : EvalThresholds, CriticalOver : EvalThresholds,
             ReturnMessage : BOOLEAN]
EvalResults == {ParsedQueryResults(TRUE, n, m) : n \in EvalCounts, m \in {"", "m1"}}

InitEval ==
  /\ opts \in EvalOpts
  /\ res \in EvalResults
  /\ wpc = "idle" /\ mpc = "evaluate"
  /\ clock \in StartClocks /\ file = NoFile /\ fileAtStart = file
  /\ runs = 1 /\ prev = NoPrev /\ loaded = NoLoad /\ AtRest
  /\ queryID = "" /\ state = logState(0) /\ input = NoInput
  /\ werr = "nil"
  /\ ctxDone = FALSE /\ resCh = <<>> /\ sigCh = 0
  /\ outcome = NoChecker
  /\ calls = <<>>
  /\ lastOut = NoOutput /\ ctxAtFinish = FALSE /\ innerFirst = "none"
  /\ exitPath = ""

\* p.buildChecker(res)
buildChecker_apply ==
  /\ mpc = "evaluate"
  /\ outcome' = buildChecker(opts, res)
  /\ mpc' = "evaluated"
  /\ UNCHANGED <<file, clock, runs, opts, wpc, queryID, state, input, res,
                 werr, ctxDone, resCh, sigCh, calls, fileAtStart, lastOut,
                 ctxAtFinish, innerFirst, exitPath, prev, loaded>>
  /\ UNCH_rest

NextEval == buildChecker_apply

SpecEval == InitEval /\ [][NextEval]_vars

\* OK < WARNING < CRITICAL
Severity(status) ==
  IF status = "OK" THEN 0 ELSE IF status = "WARNING" THEN 1 ELSE 2

\* C19: the evaluator returns CRITICAL with "{count} > {critical} messages"
\* iff count > critical, otherwise WARNING with "{count} > {warning}
\* messages" iff count > warning, otherwise OK with "{count} messages"; the
\* comparisons are strict.  The count line is the first line of the message,
\* and the whole message when ReturnMessage is not set.
C19_ThresholdEvaluator ==
  mpc = "evaluated" =>
    LET n == res.MatchedCount
        c == opts.CriticalOver
        w == opts.WarningOver
    IN  /\ outcome.status = "CRITICAL" <=> n > c
        /\ outcome.status = "WARNING" <=> (n <= c /\ n > w)
        /\ outcome.status = "OK" <=> (n <= c /\ n <= w)
        /\ n > c => outcome.msg[1] = <<n, ">", c, "messages">>
        /\ (n <= c /\ n > w) => outcome.msg[1] = <<n, ">", w, "messages">>
        /\ (n <= c /\ n <= w) => outcome.msg[1] = <<n, "messages">>
        /\ ~opts.ReturnMessage => Len(outcome.msg) = 1

\* A count equal to the critical threshold, above the warning one: WARNING.
C19_Witness ==
  /\ mpc = "evaluated"
  /\ res.MatchedCount = opts.CriticalOver
  /\ opts.CriticalOver > opts.WarningOver
  /\ outcome = Checker("WARNING",
                       << <<res.MatchedCount, ">", opts.WarningOver, "messages">> >>)

\* C20: for thresholds w < c and counts m1 <= m2 the severity for m2 is not
\* lower than the severity for m1.
C20_Monotonic ==
  (mpc = "evaluated" /\ opts.WarningOver < opts.CriticalOver) =>
    \A m1 \in EvalCounts :
      m1 <= res.MatchedCount =>
        Severity(buildChecker(opts, [res EXCEPT !.MatchedCount = m1]).status)
          <= Severity(outcome.status)

\* A count above critical, with a lower count that is OK.
C20_Witness ==
  /\ mpc = "evaluated"
  /\ opts.WarningOver < opts.CriticalOver
  /\ outcome.status = "CRITICAL"
  /\ \E m1 \in EvalCounts :
       /\ m1 < res.MatchedCount
       /\ buildChecker(opts, [res EXCEPT !.MatchedCount = m1]).status = "OK"


\* -------------------------------------------- consecutive invocations
\* What an invocation leaves behind when its process exits: whether it sent
\* a StartQuery that succeeded and with which end, how its saveState went,
\* whether its query ended Failed or Cancelled or a signal interrupted it,
\* and the select case through which run returned.
Summary ==
  [submitted |-> StartOK,
   EndTime |-> IF StartOK THEN input.EndTime ELSE 0,
   save |-> IF SavedOK THEN "ok" ELSE IF SaveFailed THEN "err" ELSE "none",
   trouble |-> IF ctxDone /\ exitPath # "result" THEN "interrupted"
               ELSE IF lastOut.Status \in {"Failed", "Cancelled"} THEN "failed"
               ELSE "none",
   exitPath |-> exitPath]

\* Exit, with the invocation that ends remembered by the next one.
Restart == ExitWith(Summary)

ScanFiles(now) == {NoFile, EncodeState(logState(Unix(now) - 60))}

InitScan ==
  /\ clock \in StartClocks
  /\ file \in ScanFiles(clock)
  /\ fileAtStart = file
  /\ opts \in {o \in OptsSet : ~o.ReturnMessage}
  /\ runs = 1
  /\ prev = NoPrev /\ loaded = NoLoad /\ AtRest
  /\ Fresh

NextScan ==
  \/ searchLogs_start
  \/ searchLogs_ctxDone
  \/ searchLogs_tick
  \/ searchLogs_pollError
  \/ searchLogs_pollOutput
  \/ searchLogs_finished
  \/ searchLogs_cancelSave
  \/ searchLogs_cancelStop
  \/ worker_send
  \/ Signal
  \/ run_result
  \/ run_signal
  \/ run_signal_result
  \/ run_signal_signal
  \/ Restart

SpecScan == InitScan /\ [][NextScan]_vars

\* C17: when the invocation before saved its cursor, the window submitted
\* now starts no later than the end of the window submitted before (no
\* gap), and the two overlap by no more than OverlapMinutes.
C17_ContiguousScan ==
  (prev.save = "ok" /\ Has("StartQuery")) =>
    /\ input.StartTime <= prev.EndTime
    /\ prev.EndTime - input.StartTime <= OverlapMinutes * 60

\* The second window starts two minutes before the end of the first and ends
\* after it.
C17_Witness ==
  /\ prev.save = "ok"
  /\ StartOK
  /\ input.StartTime = prev.EndTime - OverlapMinutes * 60
  /\ input.EndTime > prev.EndTime

ParseRows ==
  { <<Field("@ptr", "p")>>,
    <<Field(MessageField, "m1")>>,
    <<Field("@ptr", "p"), Field(MessageField, "m2")>> }
ParseResultSets == UNION {[1..n -> ParseRows] : n \in 0..MaxRows}
ParseOutputs ==
  [Status : Statuses \cup OtherStatuses \cup {"nil"},
   RecordsMatched : RecordsMatchedValues \cup {0},
   Results : ParseResultSets]

InitParse ==
  /\ lastOut \in ParseOutputs
  /\ opts \in OptsSet
  /\ wpc = "parse" /\ mpc = "wait"
  /\ clock \in StartClocks /\ file = NoFile /\ fileAtStart = file
  /\ runs = 1 /\ prev = NoPrev /\ loaded = NoLoad /\ AtRest
  /\ queryID = "" /\ state = logState(0) /\ input = NoInput
  /\ res = NoResult /\ werr = "nil"
  /\ ctxDone = FALSE /\ resCh = <<>> /\ sigCh = 0
  /\ outcome = NoChecker
  /\ calls = <<>>
  /\ ctxAtFinish = FALSE /\ innerFirst = "none"
  /\ exitPath = ""

\* Lines 138-139: res, err := parseResult(out); if res.Finished.  A finished
\* result goes on to buildChecker.
parseResult_apply ==
  /\ wpc = "parse"
  /\ LET pr == parseResult(lastOut)
     IN  /\ res' = pr.res
         /\ werr' = pr.err
         /\ wpc' = afterParse(pr)
         /\ mpc' = IF afterParse(pr) = "finished" THEN "evaluate" ELSE mpc
  /\ UNCHANGED <<file, clock, runs, opts, queryID, state, input, ctxDone,
                 resCh, sigCh, outcome, calls, fileAtStart, lastOut,
                 ctxAtFinish, innerFirst, exitPath, prev, loaded>>
  /\ UNCH_rest

NextParse ==
  \/ parseResult_apply
  \/ buildChecker_apply

SpecParse == InitParse /\ [][NextParse]_vars

\* The response has been classified and parseResult returned a result.
Parsed == wpc # "parse" /\ lastOut.Status # "nil"
Terminal == {"Complete", "Failed", "Cancelled"}

\* The values of the message fields of the rows, in the order of the rows.
RECURSIVE AllMessages(_)
AllMessages(rows) ==
  IF rows = <<>> THEN <<>>
  ELSE LET m == rowMessage(Head(rows))
       IN  (IF m.found THEN <<m.v>> ELSE <<>>) \o AllMessages(Tail(rows))

\* What the result holds as sampled messages: its one string, if any.
Sampled(r) == IF r.ReturnedMessage = "" THEN <<>> ELSE <<r.ReturnedMessage>>

C23_FailureIsNamed ==
  (Parsed /\ lastOut.Status \in {"Failed", "Cancelled"}) =>
    res # parseResult([lastOut EXCEPT !.Status = "Complete"]).res

\* C24 as stated: a status other than the five known ones makes the
\* classifier fail with an error, and the loop polls again.
C24_UnknownStatusIsError ==
  (wpc # "parse" /\ lastOut.Status \in OtherStatuses) =>
    /\ werr # "nil"
    /\ wpc = "select"

\* C24: a status other than the five known ones is classified like Running:
\* a result that is not finished, no error, and the loop polls again.  Only
\* a nil output or a nil Status makes parseResult fail.
C24_UnknownStatusIsNotFinished ==
  /\ (wpc # "parse" /\ lastOut.Status \in OtherStatuses) =>
       /\ werr = "nil"
       /\ ~res.Finished
       /\ wpc = "select"
  /\ (wpc # "parse" /\ werr # "nil") => lastOut.Status = "nil"

C24_Witness ==
  /\ lastOut.Status \in OtherStatuses
  /\ wpc = "select"
  /\ werr = "nil"
  /\ res = ParsedQueryResults(FALSE, 3, "m2")

\* C25: the count of the result is RecordsMatched when the statistics are
\* there and 0 when they are not, whatever rows the response holds.
C25_CountFromStatistics ==
  Parsed =>
    /\ res.MatchedCount =
         IF lastOut.RecordsMatched # NoStatistics THEN lastOut.RecordsMatched ELSE 0
    /\ \A rows \in ParseResultSets :
         parseResult([lastOut EXCEPT !.Results = rows]).res.MatchedCount
           = res.MatchedCount

\* Two rows and no statistics: count 0.
C25_Witness ==
  /\ Parsed
  /\ Len(lastOut.Results) = MaxRows
  /\ lastOut.RecordsMatched = NoStatistics
  /\ res.MatchedCount = 0

\* C26 as stated: without ReturnMessage the result holds no sampled message,
\* whatever rows the response holds.
C26_NoCaptureNoMessages ==
  (Parsed /\ ~opts.ReturnMessage) => Sampled(res) = <<>>

\* C26: parseResult does not know the options: the result holds a message
\* whenever a row of the response has a message field, with ReturnMessage
\* and without; it is buildChecker that leaves the message out of the
\* checker when ReturnMessage is not set.
C26_MessageParsedNotShown ==
  /\ Parsed => (Sampled(res) # <<>> <=> AllMessages(lastOut.Results) # <<>>)
  /\ (mpc = "evaluated" /\ ~opts.ReturnMessage) => Len(outcome.msg) = 1

C26_Witness ==
  /\ mpc = "evaluated"
  /\ ~opts.ReturnMessage
  /\ res.ReturnedMessage = "m1"
  /\ outcome.status = "CRITICAL"
  /\ Len(outcome.msg) = 1

\* C27: for a Complete response the sampled messages of the result are the
\* values of all message fields, one for each, in the order of the rows.
C27_AllMessagesInOrder ==
  (Parsed /\ lastOut.Status = "Complete") =>
    Sampled(res) = AllMessages(lastOut.Results)


\* C22: a response is classified as finished iff its status is Complete,
\* Failed or Cancelled; Scheduled and Running give a result that is not
\* finished and no error, and the loop goes back to its select; the result
\* searchLogs ends with is the one of the finished response, whatever was
\* polled before it.
C22_TerminalStatuses ==
  /\ wpc = "poll" =>
       \A out \in Outputs :
         LET pr == parseResult(out)
         IN  /\ out.Status \in Terminal <=> afterParse(pr) = "finished"
             /\ out.Status \in {"Scheduled", "Running"} =>
                  /\ ~pr.nilres /\ pr.err = "nil" /\ ~pr.res.Finished
                  /\ afterParse(pr) = "select"
  /\ lastOut # NoOutput =>
       /\ lastOut.Status \in Terminal
       /\ res.Finished
       /\ res.MatchedCount = parseResult(lastOut).res.MatchedCount
  /\ (lastOut = NoOutput /\ Responses("malformed") = 0 /\ StartOK) =>
       wpc \in {"select", "poll"}

\* A response that was not finished, then Complete: run returns the checker
\* of the Complete result.
C22_Witness ==
  /\ Responses("nonterminal") = 1
  /\ Responses("terminal") = 1
  /\ lastOut.Status = "Complete"
  /\ lastOut.RecordsMatched = 3
  /\ mpc = "returned"
  /\ outcome.status = "CRITICAL"


\* ------------------------------------------- one invocation, with signals
\* One invocation from its start to the return of run, signals included.
NextOnce ==
  \/ searchLogs_start
  \/ searchLogs_ctxDone
  \/ searchLogs_tick
  \/ searchLogs_pollError
  \/ searchLogs_pollOutput
  \/ searchLogs_finished
  \/ searchLogs_cancelSave
  \/ searchLogs_cancelStop
  \/ worker_send
  \/ Signal
  \/ run_result
  \/ run_signal
  \/ run_signal_result
  \/ run_signal_signal

SpecOnce == Init /\ [][NextOnce]_vars

SaveError == "failed to save state file"
FromWorker == mpc = "returned" /\ exitPath \in {"result", "signal-result"}

\* C28: when the write of the state fails after a Complete response,
\* searchLogs returns an error in place of the result and the checker is
\* UNKNOWN; when it fails on the cancellation branch, searchLogs still
\* returns the context's error.
C28_WriteFailureEscalates ==
  /\ (Returned /\ SaveFailed /\ ~TookCancel /\ lastOut.Status = "Complete") =>
       /\ werr = SaveError
       /\ WorkerChecker = Unknown(SaveError)
       /\ FromWorker => outcome = Unknown(SaveError)
  /\ (Returned /\ SaveFailed /\ TookCancel) =>
       /\ werr = "context canceled"
       /\ WorkerChecker = Unknown("context canceled")
       /\ FromWorker => outcome = Unknown("context canceled")

\* A Complete response with a count over the critical threshold, the write
\* fails, run returns UNKNOWN.
C28_Witness ==
  /\ lastOut.Status = "Complete"
  /\ lastOut.RecordsMatched = 3
  /\ SaveFailed
  /\ FromWorker
  /\ outcome = Unknown(SaveError)

\* C29: on the cancellation branch searchLogs returns the context's error
\* whether StopQuery succeeded or failed.
C29_StopFailureNotEscalated ==
  \A how \in {"ok", "err"} :
    (\E i \in 1..Len(calls) : calls[i] = Call("stopped", how)) =>
      /\ Returned
      /\ werr = "context canceled"
      /\ WorkerChecker = Unknown("context canceled")
      /\ FromWorker => outcome = Unknown("context canceled")

\* StopQuery failed and run returned the cancellation error.
C29_Witness ==
  /\ \E i \in 1..Len(calls) : calls[i] = Call("stopped", "err")
  /\ FromWorker
  /\ outcome = Unknown("context canceled")


\* ------------------------------------------------------- the state file
\* saveState and loadState on their own, on one state file: any cursor is
\* saved, up to MaxSaves times, the write going through or not, and the file
\* is loaded in between.
CursorValues == {-12, 0, 9, 10, 1205}

InitState ==
  /\ file \in {NoFile, CorruptFile} \cup {EncodeState(logState(c)) : c \in CursorValues}
  /\ fileAtStart = file
  /\ wpc = "idle" /\ mpc = "store"
  /\ clock \in StartClocks /\ opts \in {o \in OptsSet : ~o.ReturnMessage}
  /\ runs = 1 /\ prev = NoPrev /\ loaded = NoLoad /\ AtRest
  /\ queryID = "" /\ state = logState(0) /\ input = NoInput
  /\ res = NoResult /\ werr = "nil"
  /\ ctxDone = FALSE /\ resCh = <<>> /\ sigCh = 0
  /\ outcome = NoChecker
  /\ calls = <<>>
  /\ lastOut = NoOutput /\ ctxAtFinish = FALSE /\ innerFirst = "none"
  /\ exitPath = ""

\* p.saveState(&logState{QueryStartedAt: c})
saveState_apply ==
  /\ mpc = "store"
  /\ Count("saveState") < MaxSaves
  /\ \E c \in CursorValues, ok \in BOOLEAN :
       /\ state' = logState(c)
       /\ file' = saveState(file, logState(c), ok)
       /\ calls' = Append(calls, Call("saveState", IF ok THEN "ok" ELSE "err"))
  /\ loaded' = NoLoad
  /\ UNCHANGED <<clock, runs, opts, wpc, queryID, input, res, werr, ctxDone,
                 resCh, sigCh, mpc, outcome, fileAtStart, lastOut,
                 ctxAtFinish, innerFirst, exitPath, prev>>
  /\ UNCH_rest

\* p.loadState()
loadState_apply ==
  /\ mpc = "store"
  /\ loaded = NoLoad
  /\ loaded' = loadState(file)
  /\ UNCHANGED <<file, clock, runs, opts, wpc, queryID, state, input, res,
                 werr, ctxDone, resCh, sigCh, mpc, outcome, calls,
                 fileAtStart, lastOut, ctxAtFinish, innerFirst, exitPath, prev>>
  /\ UNCH_rest

NextState ==
  \/ saveState_apply
  \/ loadState_apply

SpecState == InitState /\ [][NextState]_vars

\* The last call of saveState went through.
LastSaveOK == calls # <<>> /\ calls[Len(calls)] = Call("saveState", "ok")

\* C30: loadState after a saveState that went through returns, without
\* error, a state equal to the one saved last, field for field, the zero
\* state included.
C30_RoundTrip ==
  (LastSaveOK /\ loaded # NoLoad) =>
    /\ loaded.err = "nil"
    /\ loaded.s = state
    /\ loaded.s.QueryStartedAt = state.QueryStartedAt

\* Two saves that went through, the second one of the zero state over a file
\* that held another state, and the zero state is loaded.
C30_Witness ==
  /\ Len(calls) = MaxSaves
  /\ \A i \in 1..Len(calls) : calls[i] = Call("saveState", "ok")
  /\ state = logState(0)
  /\ fileAtStart = EncodeState(logState(1205))
  /\ loaded = [err |-> "nil", s |-> logState(0)]


\* C34: StartQuery is called at most once in an invocation, as the first
\* call of searchLogs; after a StartQuery that failed searchLogs has
\* returned without a poll.
C34_StartQueryOnce ==
  /\ Count("StartQuery") <= 1
  /\ Has("StartQuery") => calls[1][1] = "StartQuery"
  /\ StartFailed => (Returned /\ ~Has("GetQueryResults"))

\* An API error and a response that was not finished, and still one
\* StartQuery when run has returned.
C34_Witness ==
  /\ Responses("apierr") >= 1
  /\ Responses("nonterminal") >= 1
  /\ Count("StartQuery") = 1
  /\ mpc = "returned"

\* C35: as long as no poll was classified as finished and the context is not
\* cancelled, searchLogs has not returned and is still in its loop, whatever
\* the polls answered (responses that are not finished, API errors,
\* malformed responses).
C35_LoopUntilTerminal ==
  (StartOK /\ lastOut = NoOutput /\ ~ctxDone) =>
    /\ ~Returned
    /\ wpc \in {"select", "poll"}

\* C36: StopQuery is called at most once, with the handle of this
\* invocation's StartQuery, on the cancellation branch only, never when a
\* response was classified as finished; once the cancellation branch is
\* taken every GetQueryResults call lies before it.
C36_StopQueryOnce ==
  /\ Count("StopQuery") <= 1
  /\ Has("StopQuery") =>
       /\ StartOK
       /\ calls[Pos("StopQuery")][2] = queryID /\ queryID \in QueryIds
       /\ ctxDone
       /\ werr = "context canceled"
       /\ lastOut = NoOutput
  /\ lastOut # NoOutput => ~TookCancel
  /\ TookCancel =>
       \A i \in 1..Len(calls) :
         calls[i][1] = "GetQueryResults" =>
           /\ i < Len(calls) /\ calls[i + 1][1] = "response"
           /\ Has("saveState") => i < Pos("saveState")

\* The query was polled, then cancelled and stopped.
C36_Witness ==
  /\ Has("StopQuery")
  /\ Polls >= 1
  /\ mpc = "returned"
  /\ exitPath = "signal-result"

\* C37: the worker's send on resCh can always be made, also when run has
\* returned "terminated by signal" and nobody receives; at most one checker
\* is ever in the channel; and once the worker has sent, the receive run
\* waits for is ready.
C37_SendNeverBlocks ==
  /\ wpc = "send" => ENABLED worker_send
  /\ Len(resCh) <= 1
  /\ (wpc = "done" /\ mpc \in {"outer", "inner"}) => resCh # <<>>

\* run returned on the second signal, and the worker has sent all the same.
C37_Witness ==
  /\ exitPath = "forced"
  /\ wpc = "done"
  /\ resCh = <<WorkerChecker>>

C38_CursorNeverGoesBack ==
  [][/\ CursorOf(file') >= CursorOf(file)
     /\ file.kind = "json" => file'.kind = "json"]_vars

\* The last invocation of a sequence moved the timestamp of the state file
\* forward from the one the invocation before had saved.
C38_Witness ==
  /\ runs = MaxRuns
  /\ SavedOK
  /\ HasCursor
  /\ Cursor > 0
  /\ CursorOf(file) > Cursor

\* ------------------------------------------------------------ scheduling
\* One invocation under the Go scheduler.  Each goroutine that can take a
\* step takes one: the worker's straight-line steps and the answer of the
\* backend to a poll in flight (weak fairness), and run's two selects, which
\* proceed as soon as one of their cases is ready.  The worker's select
\* chooses at random among its ready cases, so ctx.Done(), ready at every
\* pass through the select once the context is cancelled, is chosen at some
\* pass (strong fairness).  Nothing obliges a signal to arrive or the ticker
\* to win a select.
WorkerStep ==
  \/ searchLogs_start
  \/ searchLogs_finished
  \/ searchLogs_cancelSave
  \/ searchLogs_cancelStop
  \/ worker_send

BackendAnswer == searchLogs_pollError \/ searchLogs_pollOutput

RunSelect == run_result \/ run_signal \/ run_signal_result \/ run_signal_signal

SpecLive ==
  /\ Init
  /\ [][NextOnce]_vars
  /\ WF_vars(WorkerStep)
  /\ WF_vars(BackendAnswer)
  /\ WF_vars(RunSelect)
  /\ SF_vars(searchLogs_ctxDone)

\* The backend answered a poll with a terminal status, or a signal is in
\* sigCh.
TerminalAnswered == Responses("terminal") >= 1
InterruptDelivered == sigCh > 0

\* C32: under fair scheduling, once the backend has answered a poll with a
\* terminal status or a signal has been delivered, run returns a checker
\* with a severity.
C32_EventuallyReturns ==
  (TerminalAnswered \/ InterruptDelivered) ~>
     (mpc = "returned" /\ outcome # NoChecker)

\* ---------------------------------------------------------- extractCount
\* src/lib/app.go, lines 199-211 (the version of the plugin that counts by a
\* "stats count" query).  A *ResultField is nil or holds a Value; a Value
\* (*string) is nil or holds a string.
MaxFields == 2

NilString == [nil |-> TRUE, s |-> <<>>]
String(s) == [nil |-> FALSE, s |-> s]
NilField == [nil |-> TRUE, Value |-> NilString]
ResultField(v) == [nil |-> FALSE, Value |-> v]

\* Go's index expression: out of range is a run-time panic.
Index(seq, i) ==
  IF i \in 1..Len(seq) THEN [panic |-> FALSE, v |-> seq[i]]
  ELSE [panic |-> TRUE, v |-> <<>>]

CountErr(e) == [n |-> 0, err |-> e]
CountPanic == [n |-> 0, err |-> "panic"]

\* strconv.Atoi: an optional sign and decimal digits; anything else is a
\* syntax error with value 0.
Atoi(s) ==
  LET signed == s # <<>> /\ Head(s) \in {"+", "-"}
      digits == IF signed THEN Tail(s) ELSE s
  IN  IF ~IsDigits(digits) THEN CountErr("invalid syntax")
      ELSE [n |-> IF signed /\ Head(s) = "-" THEN -ParseNat(digits)
                  ELSE ParseNat(digits),
            err |-> "nil"]

\* Mutant: the length of the first record is not looked at.
extractCount_noLength(rs) ==
  IF Len(rs) = 0 THEN CountErr("result is empty")
  ELSE LET field == Index(rs[1], 1)
       IN  IF field.panic THEN CountPanic
           ELSE IF field.v.nil \/ field.v.Value.nil
                THEN CountErr("unknown format")
           ELSE Atoi(field.v.Value.s)

extractCount(rs) ==
  IF Len(rs) = 0 THEN CountErr("result is empty")
  ELSE LET record == Index(rs, 1)
       IN  IF record.panic THEN CountPanic
           ELSE IF Len(record.v) = 0 THEN CountErr("unknown format")
           ELSE LET field == Index(record.v, 1)
                IN  IF field.panic THEN CountPanic
                    ELSE IF field.v.nil \/ field.v.Value.nil
                         THEN CountErr("unknown format")
                    ELSE Atoi(field.v.Value.s)

\* Result sets handed to extractCount.  Only the first field of the first
\* record is read: it ranges over every shape, the fields and records
\* behind it over two.
FirstFields ==
  {NilField, ResultField(NilString)} \cup
  {ResultField(String(s)) : s \in {<<"2">>, <<"1", "0">>, <<"-", "7">>,
                                   <<"x">>, <<>>}}
MoreFields == {NilField, ResultField(String(<<"9">>))}
MoreRecords == {<<>>, <<ResultField(String(<<"9">>))>>}
FirstRecords ==
  {<<>>} \cup
  {<<f>> \o more : f \in FirstFields,
                   more \in UNION {[1..k -> MoreFields] : k \in 0..(MaxFields - 1)}}
ExtractInputs ==
  {<<>>} \cup
  {<<r>> \o more : r \in FirstRecords,
                   more \in UNION {[1..k -> MoreRecords] : k \in 0..(MaxRows - 1)}}

InitExtract ==
  /\ records \in ExtractInputs
  /\ count = NoCount
  /\ ident = NoIdent /\ StateFile = NoPath /\ tmpfile = NoTemp
  /\ wpc = "idle" /\ mpc = "extract"
  /\ clock \in StartClocks /\ file = NoFile /\ fileAtStart = file
  /\ opts \in {o \in OptsSet : ~o.ReturnMessage}
  /\ runs = 1 /\ prev = NoPrev /\ loaded = NoLoad
  /\ queryID = "" /\ state = logState(0) /\ input = NoInput
  /\ res = NoResult /\ werr = "nil"
  /\ ctxDone = FALSE /\ resCh = <<>> /\ sigCh = 0
  /\ outcome = NoChecker
  /\ calls = <<>>
  /\ lastOut = NoOutput /\ ctxAtFinish = FALSE /\ innerFirst = "none"
  /\ exitPath = ""

\* count, err := extractCount(res)
extractCount_apply ==
  /\ mpc = "extract"
  /\ count' = extractCount(records)
  /\ mpc' = "extracted"
  /\ UNCHANGED <<file, clock, runs, opts, wpc, queryID, state, input, res,
                 werr, ctxDone, resCh, sigCh, outcome, calls, fileAtStart,
                 lastOut, ctxAtFinish, innerFirst, exitPath, prev, loaded,
                 records, ident, StateFile, tmpfile>>

NextExtract == extractCount_apply

SpecExtract == InitExtract /\ [][NextExtract]_vars

Extracted == mpc = "extracted"
\* The result set is empty, its first record is empty, or the first field
\* of the first record or its value is nil.
NoFirstValue ==
  \/ records = <<>>
  \/ records[1] = <<>>
  \/ records[1][1].nil
  \/ records[1][1].Value.nil
FirstValue == records[1][1].Value.s

RECURSIVE Join(_, _)
Join(elems, sep) ==
  IF elems = <<>> THEN <<>>
  ELSE IF Len(elems) = 1 THEN elems[1]
  ELSE elems[1] \o sep \o Join(Tail(elems), sep)

\* fmt.Sprintf("%x.json", md5.Sum(text)): the digest is written as its
\* preimage, that is, md5 is taken to be free of collisions.
Md5Name(text) == <<"md5(">> \o text \o <<").json">>

\* filepath.Join(stateDir, name)
PathJoin(dir, name) == [dir |-> dir, name |-> name]

Getenv(id, name) == id[name]

getStateFile(id, stateDir, args) ==
  PathJoin(stateDir,
           Md5Name(Join(<<Getenv(id, "AWS_PROFILE"),
                          Getenv(id, "AWS_ACCESS_KEY_ID"),
                          Getenv(id, "AWS_REGION"),
                          Join(args, <<" ">>)>>,
                        <<" ">>)))

\* Invocations: two state directories, environment values with and without
\* a space in them, argument vectors with the same words split differently.
Identities ==
  [stateDir : {"/var/tmp/a", "/var/tmp/b"},
   AWS_PROFILE : {<<>>, <<"p">>, <<"p", " ", "k">>},
   AWS_ACCESS_KEY_ID : {<<"k">>, <<"r">>, <<"k", " ", "r">>},
   AWS_REGION : {<<>>, <<"r">>},
   args : {<<>>, << <<"a">> >>, << <<"a", " ", "b">> >>, << <<"a">>, <<"b">> >>}]

InitPath ==
  /\ ident \in Identities
  /\ StateFile = NoPath
  /\ records = NoRecords /\ count = NoCount /\ tmpfile = NoTemp
  /\ wpc = "idle" /\ mpc = "new"
  /\ clock \in StartClocks /\ file = NoFile /\ fileAtStart = file
  /\ opts \in {o \in OptsSet : ~o.ReturnMessage}
  /\ runs = 1 /\ prev = NoPrev /\ loaded = NoLoad
  /\ queryID = "" /\ state = logState(0) /\ input = NoInput
  /\ res = NoResult /\ werr = "nil"
  /\ ctxDone = FALSE /\ resCh = <<>> /\ sigCh = 0
  /\ outcome = NoChecker
  /\ calls = <<>>
  /\ lastOut = NoOutput /\ ctxAtFinish = FALSE /\ innerFirst = "none"
  /\ exitPath = ""

\* newCWLogsInsightsPlugin: p.StateFile = getStateFile(p.StateDir, args)
getStateFile_apply ==
  /\ mpc = "new"
  /\ StateFile' = getStateFile(ident, ident.stateDir, ident.args)
  /\ mpc' = "created"
  /\ UNCHANGED <<file, clock, runs, opts, wpc, queryID, state, input, res,
                 werr, ctxDone, resCh, sigCh, outcome, calls, fileAtStart,
                 lastOut, ctxAtFinish, innerFirst, exitPath, prev, loaded,
                 records, count, ident, tmpfile>>

NextPath == getStateFile_apply

SpecPath == InitPath /\ [][NextPath]_vars

\* C31: the path of the state file is a function of the state directory,
\* AWS_PROFILE, AWS_ACCESS_KEY_ID, AWS_REGION and the argument vector, and
\* no invocation whose tuple differs in any of the five gets the same path.
C31_NoCollision ==
  mpc = "created" =>
    /\ StateFile = getStateFile(ident, ident.stateDir, ident.args)
    /\ \A other \in Identities :
         other # ident =>
           getStateFile(other, other.stateDir, other.args) # StateFile

\* ------------------------------------------------- saveState, step by step
\* saveState (lines 272-282) encodes the state, makes the directory and
\* calls atomic.WriteFile, which writes a temporary file in the directory
\* of the state file, closes it and renames it over the state file; on an
\* error it removes the temporary file.  The process can be killed between
\* any two of these steps; the rename itself is one step of the file
\* system.

\* What a file holds of {"QueryStartedAt":N} when only a part of it was
\* written: the opening of the object and some of the digits.
PartialFile(written) == [kind |-> "corrupt", text |-> <<"{">> \o written]

\* The bytes saveState is writing.
Buf == EncodeState(state).text

InitCrash ==
  /\ file \in {NoFile, CorruptFile} \cup {EncodeState(logState(c)) : c \in CursorValues}
  /\ fileAtStart = file
  /\ tmpfile = NoTemp
  /\ records = NoRecords /\ count = NoCount
  /\ ident = NoIdent /\ StateFile = NoPath
  /\ wpc = "idle" /\ mpc = "persist"
  /\ clock \in StartClocks /\ opts \in {o \in OptsSet : ~o.ReturnMessage}
  /\ runs = 1 /\ prev = NoPrev /\ loaded = NoLoad
  /\ queryID = "" /\ state = logState(0) /\ input = NoInput
  /\ res = NoResult /\ werr = "nil"
  /\ ctxDone = FALSE /\ resCh = <<>> /\ sigCh = 0
  /\ outcome = NoChecker
  /\ calls = <<>>
  /\ lastOut = NoOutput /\ ctxAtFinish = FALSE /\ innerFirst = "none"
  /\ exitPath = ""

UNCH_crash ==
  UNCHANGED <<clock, runs, opts, queryID, input, res, werr, ctxDone, resCh,
              sigCh, mpc, outcome, calls, fileAtStart, lastOut, ctxAtFinish,
              innerFirst, exitPath, prev, records, count, ident, StateFile>>

\* Lines 274-280: json.NewEncoder(&buf).Encode(s), os.MkdirAll.
saveState_encode ==
  /\ mpc = "persist" /\ wpc = "idle"
  /\ \E c \in CursorValues : state' = logState(c)
  /\ wpc' = "encoded"
  /\ UNCHANGED <<file, tmpfile, loaded>>
  /\ UNCH_crash

\* atomic.WriteFile: ioutil.TempFile in the directory of the state file.
atomic_createTemp ==
  /\ wpc = "encoded"
  /\ tmpfile' = [exists |-> TRUE, text |-> <<>>]
  /\ wpc' = "copy"
  /\ UNCHANGED <<file, state, loaded>>
  /\ UNCH_crash

\* Mutant: the bytes are written through to the state file itself.
atomic_copy_inPlace ==
  /\ wpc = "copy"
  /\ Len(tmpfile.text) < Len(Buf)
  /\ \E n \in (Len(tmpfile.text) + 1)..Len(Buf) :
       /\ tmpfile' = [exists |-> TRUE, text |-> SubSeq(Buf, 1, n)]
       /\ file' = IF n = Len(Buf) THEN EncodeState(state)
                  ELSE PartialFile(SubSeq(Buf, 1, n))
  /\ UNCHANGED <<wpc, state, loaded>>
  /\ UNCH_crash

\* atomic.WriteFile: io.Copy(f, r) writes the buffer to the temporary file,
\* some bytes at a time.
atomic_copy ==
  /\ wpc = "copy"
  /\ Len(tmpfile.text) < Len(Buf)
  /\ \E n \in (Len(tmpfile.text) + 1)..Len(Buf) :
       tmpfile' = [exists |-> TRUE, text |-> SubSeq(Buf, 1, n)]
  /\ UNCHANGED <<file, wpc, state, loaded>>
  /\ UNCH_crash

\* atomic.WriteFile: f.Sync(), f.Close() once everything is written.
atomic_close ==
  /\ wpc = "copy"
  /\ tmpfile.text = Buf
  /\ wpc' = "rename"
  /\ UNCHANGED <<file, tmpfile, state, loaded>>
  /\ UNCH_crash

\* atomic.WriteFile: ReplaceFile renames the temporary file over the state
\* file.
atomic_rename ==
  /\ wpc = "rename"
  /\ file' = [kind |-> "json", text |-> tmpfile.text]
  /\ tmpfile' = NoTemp
  /\ wpc' = "renamed"
  /\ UNCHANGED <<state, loaded>>
  /\ UNCH_crash

\* atomic.WriteFile and saveState return nil.
saveState_return ==
  /\ wpc = "renamed"
  /\ wpc' = "saved"
  /\ UNCHANGED <<file, tmpfile, state, loaded>>
  /\ UNCH_crash

\* MkdirAll, the creation of the temporary file, a write, the close or the
\* rename fails: saveState returns the error, the temporary file is removed.
saveState_fails ==
  /\ wpc \in {"encoded", "copy", "rename"}
  /\ tmpfile' = NoTemp
  /\ wpc' = "failed"
  /\ UNCHANGED <<file, state, loaded>>
  /\ UNCH_crash

\* The process is killed while it is in saveState.
Crash ==
  /\ wpc \in {"encoded", "copy", "rename", "renamed"}
  /\ wpc' = "crashed"
  /\ UNCHANGED <<file, tmpfile, state, loaded>>
  /\ UNCH_crash

\* The next invocation: p.loadState().
loadState_next ==
  /\ wpc \in {"crashed", "saved", "failed"}
  /\ loaded = NoLoad
  /\ loaded' = loadState(file)
  /\ UNCHANGED <<file, tmpfile, state, wpc>>
  /\ UNCH_crash

NextCrash ==
  \/ saveState_encode
  \/ atomic_createTemp
  \/ atomic_copy
  \/ atomic_close
  \/ atomic_rename
  \/ saveState_return
  \/ saveState_fails
  \/ Crash
  \/ loadState_next

SpecCrash == InitCrash /\ [][NextCrash]_vars

\* C33: whenever the process is killed inside saveState, the state file is
\* the file the invocation found or the complete new state, and the next
\* invocation loads exactly what it would have loaded before, or the new
\* cursor; a save that returned an error left the file as it was, and a
\* save that returned without one left the new state.
C33_AtomicSave ==
  /\ wpc \in {"encoded", "copy", "rename", "failed"} => file = fileAtStart
  /\ wpc \in {"renamed", "saved"} => file = EncodeState(state)
  /\ wpc = "crashed" => file \in {fileAtStart, EncodeState(state)}
  /\ (wpc = "crashed" /\ loaded # NoLoad) =>
       \/ loaded = loadState(fileAtStart)
       \/ loaded.err = "nil" /\ loaded.s = state

\* Killed after a part of a new cursor was written, with a cursor already
\* on disk: the next invocation loads the old cursor.
C33_Witness ==
  /\ wpc = "crashed"
  /\ tmpfile.exists /\ tmpfile.text # <<>> /\ tmpfile.text # Buf
  /\ fileAtStart.kind = "json" /\ CursorOf(fileAtStart) # state.QueryStartedAt
  /\ loaded.err = "nil" /\ loaded.s = logState(CursorOf(fileAtStart))


============================================================================
